---- MODULE Spec2Model ----
(***************************************************************************)
(* Model of src/app.py: the /download handler (download_video), the        *)
(* provider call (download_with_ytdlp) and the deferred cleanup timers     *)
(* (schedule_delete).                                                      *)
(*                                                                         *)
(* Time.  The cleanup timers are wall-clock timers of 15 s and 20 s.  The  *)
(* model counts seconds per timer (elapsed), observing the clock every     *)
(* TickSeconds; a timer fires at the first observation at or after its     *)
(* delay.  Time advances (Tick) only                                       *)
(* while every handler is at a blocking point (waiting for a request, in   *)
(* the provider's network download, or streaming the response body to the  *)
(* client) and no timer is due: the local steps of a handler and the body  *)
(* of a due timer take no measurable time against second-long delays.      *)
(*                                                                         *)
(* Filesystem.  dirs is the set of workspace directories under             *)
(* DOWNLOAD_FOLDER; files is the set of workspaces whose artifact (the     *)
(* path download_with_ytdlp returns) exists.                               *)
(***************************************************************************)
EXTENDS Integers, FiniteSets, Sequences, TLC

\* ---------------------------------------------------------------- bounds
NumReqs == 2          \* concurrent requests (app.run(threaded=True))
NumChunks == 2        \* chunks the response body is streamed in
TickSeconds == 5      \* seconds between two observations of the clock

\* ------------------------------------------------------ program constants
DefaultDelay == 10    \* def schedule_delete(path, delay=10, is_dir=False)
FileDelay == 15       \* schedule_delete(downloaded_file, delay=15)
DirDelay == 20        \* schedule_delete(temp_dir, delay=20, is_dir=True)
Retries == 3          \* ydl_opts["retries"]

Reqs == 1..NumReqs
\* a mutant: every request works in one fixed directory
SharedDirName(r) == 1
\* tempfile.mkdtemp returns a name it has just made up and found unused
\* (random characters, retried on collision); the model writes the name
\* made up for request r as r
MkdtempName(r) == r

None == "None"
NoDir == 0

\* Request bodies: no/invalid JSON, JSON without "url", empty url, a url.
Bodies == {"", "{}", "{\"url\": \"\"}", "{\"url\": \"http://v\"}"}

\* data = request.get_json(silent=True); url = data.get("url") if data else None
GetUrl(body) ==
    CASE body = "" -> None
      [] body = "{}" -> None
      [] body = "{\"url\": \"\"}" -> ""
      [] OTHER -> "http://v"

\* a mutant: only None is rejected
TruthyNotNone(u) == u /= None

\* Python truthiness of url in `if not url`
Truthy(u) == u /= None /\ u /= ""

VARIABLES
    pc,         \* position of each request's handler
    body,       \* the request's JSON body
    url,        \* local url
    temp_dir,   \* local temp_dir (NoDir before mkdtemp)
    attempt,    \* yt-dlp's retry manager: attempts made in the current
                \* provider call (0 outside a call)
    outcome,    \* how the latest of these attempts ended ("" outside a call)
    calls,      \* providers invoked by the handler, in order
    status,     \* HTTP status of the response returned (0: none yet)
    error,      \* the error message class of a 4xx/5xx response
    sent,       \* chunks of the response body sent to the client
    dirs,       \* existing workspace directories
    files,      \* workspaces whose artifact file exists
    timers      \* the threading.Timer objects started by schedule_delete

vars == <<pc, body, url, temp_dir, attempt, outcome, calls, status, error, sent,
          dirs, files, timers>>

reqVars == <<body, url, temp_dir, attempt, outcome, calls, status, error, sent>>

Init ==
    /\ pc = [r \in Reqs |-> "start"]
    /\ body = [r \in Reqs |-> ""]
    /\ url = [r \in Reqs |-> None]
    /\ temp_dir = [r \in Reqs |-> NoDir]
    /\ attempt = [r \in Reqs |-> 0]
    /\ outcome = [r \in Reqs |-> ""]
    /\ calls = [r \in Reqs |-> <<>>]
    /\ status = [r \in Reqs |-> 0]
    /\ error = [r \in Reqs |-> ""]
    /\ sent = [r \in Reqs |-> 0]
    /\ dirs = {}
    /\ files = {}
    /\ timers = {}

\* ------------------------------------------------------------ filesystem
\* a mutant: the directory is removed only when it is empty (os.rmdir)
RmdirIfEmpty(d) == IF d \in files THEN dirs ELSE dirs \ {d}
\* shutil.rmtree(path, ignore_errors=True): the directory and all in it
RmtreeDirs(d) == dirs \ {d}
RmtreeFiles(d) == files \ {d}

\* ---------------------------------------------------------------- timers
\* threading.Timer(delay, _delete).start(): a new one-shot timer
NewTimer(r, path, delay, is_dir) ==
    [req |-> r, path |-> path, is_dir |-> is_dir, delay |-> delay,
     elapsed |-> 0, fired |-> 0, raised |-> FALSE]

schedule_delete(ts, r, path, delay, is_dir) ==
    ts \cup {NewTimer(r, path, delay, is_dir)}


\* ------------------------------------------------------- handler actions
\* Positions at which a handler waits on the network; elsewhere it runs.
Blocking == {"start", "download", "streaming", "done"}

\* the three synchronous-removal returns share: rmtree(temp_dir), 500
FailAndDiscard(r, msg) ==
    /\ dirs' = RmtreeDirs(temp_dir[r])
    /\ files' = RmtreeFiles(temp_dir[r])
    /\ status' = [status EXCEPT ![r] = 500]
    /\ error' = [error EXCEPT ![r] = msg]
    /\ pc' = [pc EXCEPT ![r] = "done"]

\* lines 91-96: parse the body, reject a missing or empty url with 400
Validate(r) ==
    /\ pc[r] = "start"
    /\ \E b \in Bodies :
        /\ body' = [body EXCEPT ![r] = b]
        /\ url' = [url EXCEPT ![r] = GetUrl(b)]
        /\ IF ~Truthy(GetUrl(b))
             THEN /\ status' = [status EXCEPT ![r] = 400]
                  /\ error' = [error EXCEPT ![r] = "Missing field 'url' in JSON"]
                  /\ pc' = [pc EXCEPT ![r] = "done"]
             ELSE /\ pc' = [pc EXCEPT ![r] = "mkdtemp"]
                  /\ UNCHANGED <<status, error>>
    /\ UNCHANGED <<temp_dir, attempt, outcome, calls, sent, dirs, files, timers>>

\* line 99: tempfile.mkdtemp(dir=DOWNLOAD_FOLDER) creates a directory
\* under a name no existing directory has, or raises OSError
Mkdtemp(r) ==
    /\ pc[r] = "mkdtemp"
    /\ \/ /\ MkdtempName(r) \notin dirs
          /\ dirs' = dirs \cup {MkdtempName(r)}
          /\ temp_dir' = [temp_dir EXCEPT ![r] = MkdtempName(r)]
          /\ pc' = [pc EXCEPT ![r] = "call"]
       \/ /\ pc' = [pc EXCEPT ![r] = "raised"]
          /\ UNCHANGED <<dirs, temp_dir>>
    /\ UNCHANGED <<body, url, attempt, outcome, calls, status, error, sent, files, timers>>

\* line 102: the handler's one provider call
CallProvider(r) ==
    /\ pc[r] = "call"
    /\ calls' = [calls EXCEPT ![r] = Append(@, "yt_dlp")]
    /\ pc' = [pc EXCEPT ![r] = "download"]
    /\ UNCHANGED <<body, url, temp_dir, attempt, outcome, status, error, sent,
                   dirs, files, timers>>

\* What one attempt of the provider can end in: the file is written at the
\* path returned; a path is returned at which no file is (lines 72-73 force
\* the .mp4 extension onto the name); a network error yt-dlp retries; an
\* error it does not retry (DownloadError); any other exception.
Outcomes == {"ok", "missing", "transient", "fatal", "crash"}

\* a mutant: no retry
GivesUpAtOnce(n) == TRUE
\* "retries": Retries in ydl_opts: yt-dlp gives up on a transient error
\* once the number of the failed attempt exceeds the retries allowed
GivesUp(n) == n > Retries

\* lines 41-82: download_with_ytdlp under ydl_opts
ProviderAttempt(r) ==
    /\ pc[r] = "download"
    /\ \E o \in Outcomes :
        /\ attempt' = [attempt EXCEPT ![r] = @ + 1]
        /\ outcome' = [outcome EXCEPT ![r] = o]
        /\ files' = IF o = "ok" THEN files \cup {temp_dir[r]} ELSE files
        /\ pc' = [pc EXCEPT ![r] =
                    CASE o \in {"ok", "missing"} -> "check"
                      [] o = "transient" ->
                           IF GivesUp(attempt[r] + 1) THEN "DownloadError"
                                                       ELSE "download"
                      [] o = "fatal" -> "DownloadError"
                      [] OTHER -> "Exception"]
    /\ UNCHANGED <<body, url, temp_dir, calls, status, error, sent, dirs, timers>>

\* a mutant: a DownloadError makes the handler call the provider again
ExceptDownloadErrorCallsAgain(r) ==
    /\ pc[r] = "DownloadError"
    /\ pc' = [pc EXCEPT ![r] = "call"]
    /\ attempt' = [attempt EXCEPT ![r] = 0]
    /\ outcome' = [outcome EXCEPT ![r] = ""]
    /\ UNCHANGED <<body, url, temp_dir, calls, status, error, sent,
                   dirs, files, timers>>

\* lines 103-105
ExceptDownloadError(r) ==
    /\ pc[r] = "DownloadError"
    /\ FailAndDiscard(r, "DownloadError")
    /\ attempt' = [attempt EXCEPT ![r] = 0]
    /\ outcome' = [outcome EXCEPT ![r] = ""]
    /\ UNCHANGED <<body, url, temp_dir, calls, sent, timers>>

\* a mutant: the generic handler forgets the workspace
ExceptExceptionKeepsDir(r) ==
    /\ pc[r] = "Exception"
    /\ status' = [status EXCEPT ![r] = 500]
    /\ error' = [error EXCEPT ![r] = "Unexpected error"]
    /\ pc' = [pc EXCEPT ![r] = "done"]
    /\ attempt' = [attempt EXCEPT ![r] = 0]
    /\ outcome' = [outcome EXCEPT ![r] = ""]
    /\ UNCHANGED <<body, url, temp_dir, calls, sent, dirs, files, timers>>

\* lines 106-108
ExceptException(r) ==
    /\ pc[r] = "Exception"
    /\ FailAndDiscard(r, "Unexpected error")
    /\ attempt' = [attempt EXCEPT ![r] = 0]
    /\ outcome' = [outcome EXCEPT ![r] = ""]
    /\ UNCHANGED <<body, url, temp_dir, calls, sent, timers>>

\* a mutant: the existence check lets a missing file through
CheckExistsIgnoresMissing(r) ==
    /\ pc[r] = "check"
    /\ pc' = [pc EXCEPT ![r] = "metadata"]
    /\ attempt' = [attempt EXCEPT ![r] = 0]
    /\ outcome' = [outcome EXCEPT ![r] = ""]
    /\ UNCHANGED <<body, url, temp_dir, calls, status, error, sent,
                   dirs, files, timers>>

\* lines 110-112
CheckExists(r) ==
    /\ pc[r] = "check"
    /\ IF temp_dir[r] \notin files
         THEN FailAndDiscard(r, "File missing after download")
         ELSE /\ pc' = [pc EXCEPT ![r] = "metadata"]
              /\ UNCHANGED <<status, error, dirs, files>>
    /\ attempt' = [attempt EXCEPT ![r] = 0]
    /\ outcome' = [outcome EXCEPT ![r] = ""]
    /\ UNCHANGED <<body, url, temp_dir, calls, sent, timers>>

\* lines 115-117: os.path.getsize raises OSError when the file is gone or
\* cannot be examined
Metadata(r) ==
    /\ pc[r] = "metadata"
    /\ \E statOk \in BOOLEAN :
         pc' = [pc EXCEPT ![r] =
                  IF statOk /\ temp_dir[r] \in files THEN "schedule" ELSE "raised"]
    /\ UNCHANGED <<body, url, temp_dir, attempt, outcome, calls, status, error, sent,
                   dirs, files, timers>>

\* a mutant: schedule_delete deletes in the caller instead of starting a timer
ScheduleCleanupInline(r) ==
    /\ pc[r] = "schedule"
    /\ dirs' = RmtreeDirs(temp_dir[r])
    /\ files' = RmtreeFiles(temp_dir[r])
    /\ timers' = timers \cup
         {[NewTimer(r, temp_dir[r], FileDelay, FALSE) EXCEPT !.fired = 1],
          [NewTimer(r, temp_dir[r], DirDelay, TRUE) EXCEPT !.fired = 1]}
    /\ pc' = [pc EXCEPT ![r] = "send_file"]
    /\ UNCHANGED <<body, url, temp_dir, attempt, outcome, calls, status, error, sent>>

\* a mutant: only the artifact's task is armed
ScheduleCleanupFileOnly(r) ==
    /\ pc[r] = "schedule"
    /\ timers' = schedule_delete(timers, r, temp_dir[r], FileDelay, FALSE)
    /\ pc' = [pc EXCEPT ![r] = "send_file"]
    /\ UNCHANGED <<body, url, temp_dir, attempt, outcome, calls, status, error, sent,
                   dirs, files>>

\* lines 119-121: both cleanup tasks are armed
ScheduleCleanup(r) ==
    /\ pc[r] = "schedule"
    /\ timers' = schedule_delete(
                    schedule_delete(timers, r, temp_dir[r], FileDelay, FALSE),
                    r, temp_dir[r], DirDelay, TRUE)
    /\ pc' = [pc EXCEPT ![r] = "send_file"]
    /\ UNCHANGED <<body, url, temp_dir, attempt, outcome, calls, status, error, sent,
                   dirs, files>>

\* lines 124-138: send_file opens the file (FileNotFoundError if it is gone)
\* and, being conditional, raises on a Range header it cannot satisfy
SendFile(r) ==
    /\ pc[r] = "send_file"
    /\ \E rangeOk \in BOOLEAN :
         pc' = [pc EXCEPT ![r] =
                  IF rangeOk /\ temp_dir[r] \in files THEN "return" ELSE "raised"]
    /\ UNCHANGED <<body, url, temp_dir, attempt, outcome, calls, status, error, sent,
                   dirs, files, timers>>

\* lines 140-145: the success response is returned; its body is streamed
\* from the open file after the handler has returned
Return(r) ==
    /\ pc[r] = "return"
    /\ status' = [status EXCEPT ![r] = 200]
    /\ pc' = [pc EXCEPT ![r] = "streaming"]
    /\ UNCHANGED <<body, url, temp_dir, attempt, outcome, calls, error, sent,
                   dirs, files, timers>>

\* a mutant: the outer handler removes the workspace itself
ExceptOuterDiscards(r) ==
    /\ pc[r] = "raised"
    /\ FailAndDiscard(r, "unhandled")
    /\ UNCHANGED <<body, url, temp_dir, attempt, outcome, calls, sent, timers>>

\* a mutant: the exception leaves the handler without a response of its own
ExceptOuterEscapes(r) ==
    /\ pc[r] = "raised"
    /\ pc' = [pc EXCEPT ![r] = "done"]
    /\ UNCHANGED <<body, url, temp_dir, attempt, outcome, calls, status, error, sent,
                   dirs, files, timers>>

\* lines 147-149: the outer handler turns any other exception into a 500
ExceptOuter(r) ==
    /\ pc[r] = "raised"
    /\ status' = [status EXCEPT ![r] = 500]
    /\ error' = [error EXCEPT ![r] = "unhandled"]
    /\ pc' = [pc EXCEPT ![r] = "done"]
    /\ UNCHANGED <<body, url, temp_dir, attempt, outcome, calls, sent, dirs, files, timers>>

\* the WSGI server sends the next chunk of the response body
StreamChunk(r) ==
    /\ pc[r] = "streaming"
    /\ sent' = [sent EXCEPT ![r] = @ + 1]
    /\ pc' = [pc EXCEPT ![r] = IF sent[r] + 1 = NumChunks THEN "done" ELSE "streaming"]
    /\ UNCHANGED <<body, url, temp_dir, attempt, outcome, calls, status, error,
                   dirs, files, timers>>

\* the client goes away before the body is complete
Disconnect(r) ==
    /\ pc[r] = "streaming"
    /\ pc' = [pc EXCEPT ![r] = "done"]
    /\ UNCHANGED <<body, url, temp_dir, attempt, outcome, calls, status, error, sent,
                   dirs, files, timers>>

\* ---------------------------------------------------------- timer actions
\* a mutant: a timer that repeats
TimerPendingAgain(t) == t.fired < 2
\* a threading.Timer runs its function once
TimerPending(t) == t.fired = 0

\* a mutant: the function runs as soon as the timer is started
TimerDueAtOnce(t) == TRUE
\* ... and not before its delay has passed
TimerDue(t) == t.elapsed >= t.delay

\* lines 26-35: _delete.  os.remove can raise (the except clause logs it).
Fire(t) ==
    /\ TimerPending(t)
    /\ TimerDue(t)
    /\ IF t.is_dir
         THEN /\ dirs' = RmtreeDirs(t.path)
              /\ files' = RmtreeFiles(t.path)
              /\ timers' = (timers \ {t}) \cup {[t EXCEPT !.fired = @ + 1]}
         ELSE IF t.path \in files
           THEN \E removed \in BOOLEAN :
                  /\ files' = IF removed THEN files \ {t.path} ELSE files
                  /\ timers' = (timers \ {t}) \cup
                        {[t EXCEPT !.fired = @ + 1, !.raised = ~removed]}
                  /\ dirs' = dirs
           ELSE /\ timers' = (timers \ {t}) \cup {[t EXCEPT !.fired = @ + 1]}
                /\ UNCHANGED <<dirs, files>>
    /\ UNCHANGED <<pc, reqVars>>

\* TickSeconds pass
Tick ==
    /\ \A r \in Reqs : pc[r] \in Blocking
    /\ \E t \in timers : TimerPending(t)
    /\ \A t \in timers : TimerPending(t) => ~TimerDue(t)
    /\ timers' = {IF TimerPending(t) THEN [t EXCEPT !.elapsed = @ + TickSeconds] ELSE t
                    : t \in timers}
    /\ UNCHANGED <<pc, reqVars, dirs, files>>

Next ==
    \/ \E r \in Reqs : Validate(r)
    \/ \E r \in Reqs : Mkdtemp(r)
    \/ \E r \in Reqs : CallProvider(r)
    \/ \E r \in Reqs : ProviderAttempt(r)
    \/ \E r \in Reqs : ExceptDownloadError(r)
    \/ \E r \in Reqs : ExceptException(r)
    \/ \E r \in Reqs : CheckExists(r)
    \/ \E r \in Reqs : Metadata(r)
    \/ \E r \in Reqs : ScheduleCleanup(r)
    \/ \E r \in Reqs : SendFile(r)
    \/ \E r \in Reqs : Return(r)
    \/ \E r \in Reqs : ExceptOuter(r)
    \/ \E r \in Reqs : StreamChunk(r)
    \/ \E r \in Reqs : Disconnect(r)
    \/ \E t \in timers : Fire(t)
    \/ Tick

Spec == Init /\ [][Next]_vars

\* ---------------------------------------------- _delete on any filesystem
\* _delete as a function of the filesystem it finds: both tasks of every
\* request are due while the response streams, the workspace and the
\* artifact may or may not exist, and the tasks run in any order.
DeleteInit ==
    /\ pc = [r \in Reqs |-> "streaming"]
    /\ body = [r \in Reqs |-> "{\"url\": \"http://v\"}"]
    /\ url = [r \in Reqs |-> "http://v"]
    /\ temp_dir = [r \in Reqs |-> MkdtempName(r)]
    /\ attempt = [r \in Reqs |-> 0]
    /\ outcome = [r \in Reqs |-> ""]
    /\ calls = [r \in Reqs |-> <<"yt_dlp">>]
    /\ status = [r \in Reqs |-> 200]
    /\ error = [r \in Reqs |-> ""]
    /\ sent = [r \in Reqs |-> 0]
    /\ dirs \in SUBSET {MkdtempName(r) : r \in Reqs}
    /\ files \in SUBSET dirs
    /\ timers = UNION {
         {[NewTimer(r, MkdtempName(r), FileDelay, FALSE) EXCEPT !.elapsed = DirDelay],
          [NewTimer(r, MkdtempName(r), DirDelay, TRUE) EXCEPT !.elapsed = DirDelay]}
         : r \in Reqs}

DeleteNext ==
    \/ \E t \in timers : Fire(t)
    \/ \E r \in Reqs : StreamChunk(r)
    \/ \E r \in Reqs : Disconnect(r)

DeleteSpec == DeleteInit /\ [][DeleteNext]_vars

\* ================================================================ claims
TimersOf(r) == {t \in timers : t.req = r}
FileTimersOf(r) == {t \in TimersOf(r) : ~t.is_dir}
DirTimersOf(r) == {t \in TimersOf(r) : t.is_dir}
ValidBody == "{\"url\": \"http://v\"}"

\* C1: the artifact is never deleted while its response body is still
\* being streamed.  (Fails: the 15 s timer does not wait for the stream.)
C1_NoDeleteWhileStreaming ==
    \A r \in Reqs : pc[r] = "streaming" => temp_dir[r] \in files

\* C2: a failed download (DownloadError, any other exception, or a reported
\* file that is missing) is answered with 500, and the workspace is gone in
\* the step that returns the response.
C2_FailureRemovesWorkspace ==
    [][\A r \in Reqs :
         ( /\ \/ pc[r] \in {"DownloadError", "Exception"}
              \/ pc[r] = "check" /\ temp_dir[r] \notin files
           /\ pc'[r] /= pc[r] )
         => /\ pc'[r] = "done"
            /\ status'[r] = 500
            /\ temp_dir[r] \notin dirs'
            /\ temp_dir[r] \notin files'
            /\ timers' = timers]_vars

C2_Witness ==
    \E r \in Reqs :
        /\ pc[r] = "done" /\ status[r] = 500
        /\ error[r] = "Unexpected error"
        /\ temp_dir[r] /= NoDir /\ temp_dir[r] \notin dirs

\* C3: when the handler returns its success response the artifact and its
\* workspace exist and no cleanup timer of the request has fired.
C3_ArtifactExistsAtReturn ==
    \A r \in Reqs :
        (pc[r] = "return" \/ (pc[r] = "streaming" /\ \A t \in TimersOf(r) : t.elapsed = 0))
        => /\ temp_dir[r] \in files
           /\ temp_dir[r] \in dirs
           /\ \A t \in TimersOf(r) : t.fired = 0

C3_Witness ==
    \E r \in Reqs :
        /\ pc[r] = "streaming" /\ status[r] = 200 /\ sent[r] = 0
        /\ temp_dir[r] \in files
        /\ \E t \in FileTimersOf(r) : t.elapsed = 0 /\ t.fired = 0

C5_TimerFiresOnceAfterDelay ==
    /\ \A t \in timers :
        /\ t.fired <= 1
        /\ t.fired > 0 => t.elapsed >= t.delay
    /\ \A t, u \in timers :
        (t.path = u.path /\ t.is_dir = u.is_dir) => t = u

C5_Witness ==
    \E t, u \in timers :
        /\ ~t.is_dir /\ t.fired = 1 /\ t.elapsed >= FileDelay
        /\ u.is_dir /\ u.path = t.path /\ u.fired = 1 /\ u.elapsed >= DirDelay

\* C6: the workspace's delay is at least the artifact's, and the directory
\* task of a request never fires before its file task has fired.
C6_DirAfterFile ==
    \A r \in Reqs : \A d \in DirTimersOf(r) : \A f \in FileTimersOf(r) :
        /\ d.delay >= f.delay
        /\ d.fired > 0 => f.fired > 0

C6_Witness ==
    \E r \in Reqs : \E d \in DirTimersOf(r) : \E f \in FileTimersOf(r) :
        /\ f.fired = 1 /\ d.fired = 0 /\ d.elapsed >= f.delay
        /\ temp_dir[r] \in dirs

C10_NoSyncDeleteAfterHandOff ==
    [][\A r \in Reqs :
         ( /\ TimersOf(r) /= {}
           /\ \/ temp_dir[r] \in dirs /\ temp_dir[r] \notin dirs'
              \/ temp_dir[r] \in files /\ temp_dir[r] \notin files' )
         => /\ pc' = pc
            /\ \E t \in TimersOf(r) :
                 /\ t.fired = 0
                 /\ [t EXCEPT !.fired = 1] \in timers']_vars

C10_Witness ==
    \E r \in Reqs :
        /\ pc[r] = "done" /\ status[r] = 500 /\ error[r] = "unhandled"
        /\ Cardinality(TimersOf(r)) = 2
        /\ \A t \in TimersOf(r) : t.fired = 0
        /\ temp_dir[r] \in dirs /\ temp_dir[r] \in files

\* C11: an error raised by a timer's deletion is swallowed: the step in
\* which it is raised changes no request's position, response or error and
\* removes nothing; and schedule_delete returns without deleting: the step
\* that arms the timers leaves the filesystem alone and the timers unfired.
C11_CleanupErrorSwallowed ==
    [][ /\ (\E t \in timers :
              t.fired = 0 /\ [t EXCEPT !.fired = 1, !.raised = TRUE] \in timers')
          => /\ pc' = pc /\ status' = status /\ error' = error /\ sent' = sent
             /\ dirs' = dirs /\ files' = files
        /\ \A r \in Reqs :
             (pc[r] = "schedule" /\ pc'[r] /= "schedule")
             => /\ pc'[r] = "send_file"
                /\ dirs' = dirs /\ files' = files
                /\ timers' /= timers
                /\ \A t \in timers' \ timers : t.fired = 0 /\ t.elapsed = 0 ]_vars

C11_Witness ==
    \E r \in Reqs : \E t \in FileTimersOf(r) :
        /\ t.fired = 1 /\ t.raised
        /\ status[r] = 200 /\ pc[r] = "done" /\ sent[r] = NumChunks

\* C12: concurrent requests have distinct workspaces, and a step that
\* removes a request's workspace or artifact is a step of that request's own
\* handler or the firing of one of that request's own timers.
C12_NoCrossRequestDeletion ==
    [][\A r \in Reqs :
         /\ \A q \in Reqs \ {r} :
              temp_dir'[r] /= NoDir => temp_dir'[r] /= temp_dir'[q]
         /\ ( /\ temp_dir[r] /= NoDir
              /\ \/ temp_dir[r] \in dirs /\ temp_dir[r] \notin dirs'
                 \/ temp_dir[r] \in files /\ temp_dir[r] \notin files' )
            => \/ pc'[r] /= pc[r] /\ \A q \in Reqs \ {r} : pc'[q] = pc[q]
               \/ /\ pc' = pc
                  /\ \E t \in TimersOf(r) :
                       t.fired = 0 /\ [t EXCEPT !.fired = 1] \in timers' ]_vars

C12_Witness ==
    \E r, q \in Reqs :
        /\ r /= q
        /\ pc[r] = "streaming" /\ temp_dir[r] \in dirs /\ temp_dir[r] \in files
        /\ pc[q] = "done" /\ error[q] = "DownloadError"
        /\ temp_dir[q] /= NoDir /\ temp_dir[q] \notin dirs
        /\ temp_dir[q] /= temp_dir[r]

DownloadFailures == {"DownloadError", "Unexpected error", "File missing after download"}
Disconnected(r) == pc[r] = "done" /\ status[r] = 200 /\ sent[r] < NumChunks

\* C13: when the client disconnects during streaming, the artifact and the
\* workspace are cleaned up at once instead of at the 15 s / 20 s timers.
\* (Fails: the code does nothing on a disconnect.)
C13_DisconnectCleansUpAtOnce ==
    \A r \in Reqs :
        Disconnected(r) => temp_dir[r] \notin files /\ temp_dir[r] \notin dirs

\* C14: the cleanup tasks are armed after the existence check and the
\* metadata: while the handler is at the metadata or arming step the
\* artifact and workspace exist and nothing is armed yet; a request with
\* armed tasks is past the arming step, its tasks target its own workspace,
\* and at the instant of arming the target exists.
C14_ArmedAfterCheckAndMetadata ==
    \A r \in Reqs :
        /\ pc[r] \in {"metadata", "schedule"}
             => /\ temp_dir[r] \in files /\ temp_dir[r] \in dirs
                /\ TimersOf(r) = {}
        /\ TimersOf(r) /= {}
             => /\ pc[r] \in {"send_file", "return", "raised", "streaming", "done"}
                /\ \A t \in TimersOf(r) : t.path = temp_dir[r]
        /\ (pc[r] = "send_file" /\ TimersOf(r) /= {})
             => temp_dir[r] \in files /\ temp_dir[r] \in dirs

C14_Witness ==
    \E r \in Reqs :
        /\ pc[r] = "send_file"
        /\ Cardinality(TimersOf(r)) = 2
        /\ \A t \in TimersOf(r) : t.elapsed = 0 /\ t.fired = 0
        /\ temp_dir[r] \in files

\* C15: a successful request has exactly two cleanup tasks, one for the
\* artifact and one for the workspace; a request answered with 400 or with
\* a download-failure 500 has none.
C15_TwoTasksOnSuccessOnly ==
    \A r \in Reqs :
        /\ status[r] = 200
             => /\ Cardinality(TimersOf(r)) = 2
                /\ Cardinality(FileTimersOf(r)) = 1
                /\ Cardinality(DirTimersOf(r)) = 1
        /\ (status[r] = 400 \/ (status[r] = 500 /\ error[r] \in DownloadFailures))
             => TimersOf(r) = {}

C15_Witness ==
    \E r, q \in Reqs :
        /\ status[r] = 200 /\ Cardinality(TimersOf(r)) = 2
        /\ status[q] = 500 /\ error[q] = "File missing after download"
        /\ TimersOf(q) = {}

Responded(r) == pc[r] \in {"streaming", "done"}

\* C16: a request gets one response, of status 200, 400 or 500, which never
\* changes afterwards: 400 exactly for a missing or empty url, and every
\* failure after the url was accepted a 500 carrying an error message;
\* a handler that has finished has responded.
C16_OneResponse ==
    [][\A r \in Reqs :
         /\ status'[r] \in {0, 200, 400, 500}
         /\ (pc'[r] \in {"streaming", "done"}) <=> (status'[r] /= 0)
         /\ status'[r] = 400 <=> (pc'[r] /= "start" /\ body'[r] /= ValidBody)
         /\ status'[r] = 500 => error'[r] /= "" /\ body'[r] = ValidBody
         /\ status'[r] = 200 => error'[r] = ""
         /\ pc[r] \in {"DownloadError", "Exception", "raised"} /\ pc'[r] /= pc[r]
              => status'[r] = 500 /\ pc'[r] = "done"
         /\ status[r] /= 0 => status'[r] = status[r] /\ error'[r] = error[r] ]_vars

C16_Witness ==
    \E r, q \in Reqs :
        /\ pc[r] = "done" /\ status[r] = 500 /\ error[r] = "unhandled"
        /\ pc[q] = "done" /\ status[q] = 400

\* C17: no workspace is left behind: a handler that has finished either
\* has no workspace on disk any more or has a directory task pending for it.
\* (Fails: the outer except returns 500 without removing the workspace.)
C17_NoOrphanWorkspace ==
    \A r \in Reqs :
        (pc[r] = "done" /\ temp_dir[r] \in dirs)
        => \E t \in DirTimersOf(r) : t.fired = 0

Fires(t) ==
    /\ t.fired = 0
    /\ \E u \in timers' : u.req = t.req /\ u.is_dir = t.is_dir /\ u.fired = 1

\* C18: whatever the order of the two tasks: a file task that finds no file
\* changes nothing and raises nothing; a directory task leaves neither the
\* workspace nor the artifact, with or without the file inside, and removes
\* nothing else; once both tasks of a request have run, neither exists.
C18_DeleteSafeInAnyOrder ==
    [][ /\ \A t \in timers :
             Fires(t) =>
               /\ (~t.is_dir /\ t.path \notin files)
                    => /\ dirs' = dirs /\ files' = files
                       /\ [t EXCEPT !.fired = 1] \in timers'
               /\ t.is_dir
                    => /\ dirs' = dirs \ {t.path}
                       /\ files' = files \ {t.path}
        /\ \A r \in Reqs :
             (\A t \in timers' : t.req = r => t.fired = 1)
             => temp_dir[r] \notin dirs' /\ temp_dir[r] \notin files' ]_vars

C18_Witness ==
    \E r, q \in Reqs :
        /\ r /= q
        /\ \A t \in TimersOf(r) : t.fired = 1 /\ ~t.raised
        /\ temp_dir[r] \notin dirs /\ temp_dir[r] \notin files
        /\ \E d \in DirTimersOf(q) : d.fired = 1
        /\ \E f \in FileTimersOf(q) : f.fired = 0
        /\ temp_dir[q] \notin files

====
